---------------------------- MODULE Spec2Model ----------------------------
(***************************************************************************)
(* AudioInk: the engine cache (AppState::get_or_create_engine), the pure   *)
(* audio helpers (split_into_chunks, needs_chunking) and the two           *)
(* transcription commands (transcribe_file, transcribe_youtube) with the   *)
(* engine-level driver (WhisperEngine::transcribe_with_timestamps).        *)
(*                                                                         *)
(* Three specifications share the variables:                               *)
(*   SpecCache  several threads race on the engine slot;                   *)
(*   SpecPure   a pure function is applied to inputs drawn from a set;     *)
(*   Spec       one request runs through a whole command.                  *)
(***************************************************************************)
EXTENDS Integers, Sequences, FiniteSets, TLC

VARIABLES
    \* ---- AppState (commands/transcription.rs:10-13)
    current_engine,        \* Mutex<Option<(WhisperModel, WhisperEngine)>>: the slot
    mutex,                 \* the thread holding the slot's MutexGuard, or NoThread
    history,               \* the stored history.json, most recent first
    \* ---- per thread (one Tauri command invocation at a time per thread)
    tpc,                   \* position of the thread in its command
    tmodel,                \* the WhisperModel the command asked for
    tseen,                 \* the slot's model identity the thread last inspected
    tloads,                \* engine loads performed by the thread's current call
    tengine,               \* engine constructed and not yet stored / engine in use
    last_ok,               \* model of the most recent call that returned Ok(())
    thistory,              \* `history` of the thread's save_transcription call
    \* ---- the request of the Main thread (Spec)
    kind,                  \* "file" (transcribe_file) or "youtube" (transcribe_youtube)
    input_path,            \* file_path of transcribe_file
    speed,                 \* options.speed.clamp(1.0, 2.0), in hundredths
    include_timestamps,    \* options.include_timestamps
    files,                 \* files existing on disk
    extracted_audio_path,  \* Option<PathBuf>
    speedup_path,          \* Option<PathBuf>
    base_audio_path,       \* base_audio_path (file) / audio_path, the download (youtube)
    decode_path,           \* audio_path (file) / decode_path (youtube): what is decoded
    created,               \* temporary files this request created
    samples,               \* the decoded, normalised buffer (a slice)
    audio_info,            \* AudioInfo.duration as a fraction of seconds
    events,                \* "transcription-progress" events emitted, in order
    passes,                \* buffers handed to the engine (state.full), in order
    chunks,                \* split_into_chunks(samples)
    chunk_i,               \* loop index over chunks
    transcriptions,        \* Vec<String> of the chunk texts
    detected_language,     \* Option<String>
    result,                \* the TranscriptionResult under construction
    outcome,               \* what the command returned: None, Ok or Err
    cancel_requested,      \* the host asked for cancellation (spec section 5)
    \* ---- pure-function harness (SpecPure)
    pf_op, pf_in, pf_out

cacheVars == <<current_engine, mutex, tpc, tmodel, tseen, tloads, tengine, last_ok>>
reqRest   == <<kind, input_path, speed, include_timestamps,
               extracted_audio_path, speedup_path, base_audio_path, decode_path,
               created, samples,
               audio_info, events, passes, chunks, chunk_i, transcriptions,
               detected_language, result, cancel_requested>>
reqVars   == <<reqRest, files, outcome>>
pureVars  == <<pf_op, pf_in, pf_out>>
notCache  == <<history, reqVars, pureVars, thistory>>
vars      == <<cacheVars, thistory, history, reqVars, pureVars>>

\* Option::None of a record-valued Option and of a string-valued one
None   == [none |-> TRUE]
NoName == "none"

-----------------------------------------------------------------------------
(* Bounds of the model                                                     *)

MaxThreads == 2
MaxMinutes == 3
MaxPackets == 3

Threads  == 1..MaxThreads
NoThread == 0
Main     == 1

\* WhisperModel values used (models/config.rs:6-14)
Models == {"tiny", "base"}

-----------------------------------------------------------------------------
(* Files.  A path is its directory, the naming tags its string contains    *)
(* and its extension.                                                      *)

SPEEDUP_TAG   == "audioink_speedup_"
EXTRACTED_TAG == "audioink_extracted_"

Path(dir, tags, ext) == [dir |-> dir, tags |-> tags, ext |-> ext]

\* path.to_string_lossy().contains(tag)
PathContains(path, tag) == tag \in path.tags

\* the files a user may hand to transcribe_file
UserFiles == {Path("user", {}, e) : e \in {"wav", "mp4"}}
\* user files whose names contain "audioink_speedup_" and "audioink_extracted_"
TaggedUserFiles == {Path("user", {SPEEDUP_TAG, EXTRACTED_TAG}, e) : e \in {"wav", "mp4"}}
\* the `file_path` argument of transcribe_file
InputFiles == UserFiles \cup TaggedUserFiles

\* temp_dir.join(format!("audioink_speedup_{}.wav", timestamp))
SpeedupFile == Path("temp", {SPEEDUP_TAG}, "wav")
\* temp_dir.join(format!("audioink_extracted_{}.wav", timestamp))
ExtractedFile == Path("temp", {EXTRACTED_TAG}, "wav")
\* temp_dir.join("audioink_youtube").join(format!("{}.wav", safe_title))
YoutubeFile == Path("temp/audioink_youtube", {}, "wav")

VIDEO_FORMATS == {"mp4", "avi", "mov"}
is_video_format(path) == path.ext \in VIDEO_FORMATS

\* faulty variant: the tag is not looked at
cleanup_any_file(fs, path) == fs \ {path}
\* cleanup_speedup_file: remove_file only when the path contains the tag
cleanup_speedup_file(fs, path) ==
    IF PathContains(path, SPEEDUP_TAG) THEN fs \ {path} ELSE fs

cleanup_extracted_audio(fs, path) ==
    IF PathContains(path, EXTRACTED_TAG) THEN fs \ {path} ELSE fs

\* cleanup_youtube_audio: remove_file, whatever the path
cleanup_youtube_audio(fs, path) == fs \ {path}

\* what a command returns
Ok(r)  == [ok |-> TRUE, value |-> r, stage |-> "ok"]
Err(stage) == [ok |-> FALSE, value |-> None, stage |-> stage]

-----------------------------------------------------------------------------
(* Engine cache: AppState::get_or_create_engine                            *)

\* WhisperEngine::new(model): the engine remembers the model it was loaded from
WhisperEngine_new(model) == [model_name |-> model]

\* Outcomes of WhisperEngine::new: Ok, ModelNotFound, Whisper(load error)
LoadOutcomes == {"ok", "ModelNotFound", "Whisper"}

SlotModel(slot) == IF slot = None THEN NoName ELSE slot.model

\* faulty variant: the identity comparison never succeeds
CacheMiss(slot, model) == FALSE
\* `if let Some((current_model, _)) = guard.as_ref() { if current_model == model`
CacheHit(slot, model) == slot # None /\ slot.model = model

\* faulty variant: the slot is not guarded
LockAlwaysGranted(t) == TRUE
\* self.current_engine.lock(): the guard is granted only when nobody holds it
MutexFree(t) == mutex = NoThread

\* `*guard = Some((model.clone(), engine))`
StoreEngine(slot, model, engine) == [model |-> model, engine |-> engine]

\* faulty variant: a failed load drops the resident engine
LoadErrorClearsSlot(slot) == None
\* the slot after `WhisperEngine::new(model)?` returned the error: the guard
\* is dropped without an assignment
LoadError(slot) == slot

get_or_create_engine_lock(t) ==
    /\ tpc[t] = "engine"
    /\ MutexFree(t)
    /\ mutex' = t
    /\ tpc' = [tpc EXCEPT ![t] = "goc_locked"]
    /\ tseen' = [tseen EXCEPT ![t] = SlotModel(current_engine)]
    /\ tloads' = [tloads EXCEPT ![t] = 0]
    /\ UNCHANGED <<current_engine, tmodel, tengine, last_ok, notCache>>

get_or_create_engine_hit(t) ==
    /\ tpc[t] = "goc_locked"
    /\ CacheHit(current_engine, tmodel[t])
    /\ mutex' = NoThread
    /\ tpc' = [tpc EXCEPT ![t] = "goc_ok"]
    /\ last_ok' = tmodel[t]
    /\ UNCHANGED <<current_engine, tmodel, tseen, tloads, tengine, notCache>>

\* `let engine = WhisperEngine::new(model)?;` (the engine cache keeps what it
\* held when the load fails: `?` returns before the assignment to *guard)
get_or_create_engine_new(t) ==
    /\ tpc[t] = "goc_locked"
    /\ ~CacheHit(current_engine, tmodel[t])
    /\ \E o \in LoadOutcomes :
         IF o = "ok"
         THEN /\ tengine' = [tengine EXCEPT ![t] = WhisperEngine_new(tmodel[t])]
              /\ tloads' = [tloads EXCEPT ![t] = @ + 1]
              /\ tpc' = [tpc EXCEPT ![t] = "goc_store"]
              /\ UNCHANGED <<mutex, current_engine>>
         ELSE /\ mutex' = NoThread
              /\ tpc' = [tpc EXCEPT ![t] = "goc_err"]
              /\ current_engine' = LoadError(current_engine)
              /\ UNCHANGED <<tengine, tloads>>
    /\ UNCHANGED <<tmodel, tseen, last_ok, notCache>>

get_or_create_engine_store(t) ==
    /\ tpc[t] = "goc_store"
    /\ current_engine' = StoreEngine(current_engine, tmodel[t], tengine[t])
    /\ mutex' = NoThread
    /\ tengine' = [tengine EXCEPT ![t] = None]
    /\ tpc' = [tpc EXCEPT ![t] = "goc_ok"]
    /\ last_ok' = tmodel[t]
    /\ UNCHANGED <<tmodel, tseen, tloads, notCache>>

\* `let guard = state.current_engine.lock()` of the transcription block
transcribe_lock(t) ==
    /\ tpc[t] = "goc_ok"
    /\ MutexFree(t)
    /\ mutex' = t
    /\ tpc' = [tpc EXCEPT ![t] = "tr_locked"]
    /\ UNCHANGED <<current_engine, tmodel, tseen, tloads, tengine, last_ok, notCache>>


\* `if let Some((_, engine)) = guard.as_ref()`: the engine found in the slot is
\* the one the transcription runs on; an empty slot ends the command with
\* "Motor Whisper no inicializado" and drops the guard (transcribe_youtube
\* removes its download first)
transcribe_as_ref(t) ==
    /\ tpc[t] = "tr_locked"
    /\ IF current_engine # None
       THEN /\ tengine' = [tengine EXCEPT ![t] = current_engine.engine]
            /\ tseen' = [tseen EXCEPT ![t] = current_engine.model]
            /\ tpc' = [tpc EXCEPT ![t] = "tr_run"]
            /\ UNCHANGED mutex
            /\ UNCHANGED <<files, outcome>>
       ELSE /\ tseen' = [tseen EXCEPT ![t] = NoName]
            /\ mutex' = NoThread
            /\ tpc' = [tpc EXCEPT ![t] = IF kind = NoName THEN "tr_none" ELSE "failed"]
            /\ files' = IF kind = "youtube"
                         THEN cleanup_youtube_audio(files, base_audio_path)
                         ELSE files
            /\ outcome' = IF kind = NoName THEN outcome ELSE Err("engine")
            /\ UNCHANGED tengine
    /\ UNCHANGED <<current_engine, tmodel, tloads, last_ok, history, reqRest, pureVars,
                   thistory>>

-----------------------------------------------------------------------------
(* SpecCache: commands racing on the slot.  A thread's command is reduced  *)
(* to its two uses of the slot: get_or_create_engine, then the block that  *)
(* transcribes under the guard.                                            *)

\* call site: state.get_or_create_engine(&model) of a new command
cache_request(t) ==
    /\ tpc[t] \in {"idle", "goc_err", "tr_done", "tr_none"}
    /\ \E m \in Models : tmodel' = [tmodel EXCEPT ![t] = m]
    /\ tpc' = [tpc EXCEPT ![t] = "engine"]
    /\ tengine' = [tengine EXCEPT ![t] = None]
    /\ UNCHANGED <<current_engine, mutex, tseen, tloads, last_ok, notCache>>

\* engine.transcribe_with_timestamps(..) returns and the guard is dropped
cache_transcribe_return(t) ==
    /\ tpc[t] = "tr_run"
    /\ mutex' = NoThread
    /\ tpc' = [tpc EXCEPT ![t] = "tr_done"]
    /\ UNCHANGED <<current_engine, tmodel, tseen, tloads, tengine, last_ok, notCache>>

Slots == {None} \cup {StoreEngine(None, m, WhisperEngine_new(m)) : m \in Models}

CacheInit ==
    /\ current_engine \in Slots
    /\ mutex = NoThread
    /\ tpc = [t \in Threads |-> "idle"]
    /\ tmodel = [t \in Threads |-> NoName]
    /\ tseen = [t \in Threads |-> NoName]
    /\ tloads = [t \in Threads |-> 0]
    /\ tengine = [t \in Threads |-> None]
    /\ thistory = [t \in Threads |-> <<>>]
    /\ last_ok = SlotModel(current_engine)

ReqIdle ==
    /\ kind = NoName /\ input_path = None /\ speed = 100
    /\ include_timestamps = FALSE
    /\ extracted_audio_path = None /\ speedup_path = None
    /\ base_audio_path = None /\ decode_path = None
    /\ created = {} /\ samples = None /\ audio_info = None
    /\ events = <<>> /\ passes = <<>> /\ chunks = <<>> /\ chunk_i = 0
    /\ transcriptions = <<>> /\ detected_language = NoName /\ result = None
    /\ outcome = None /\ cancel_requested = FALSE

PureIdle == pf_op = NoName /\ pf_in = None /\ pf_out = None

InitCache == CacheInit /\ history = <<>> /\ ReqIdle /\ files = {} /\ PureIdle

NextCache ==
    \E t \in Threads :
        \/ cache_request(t)
        \/ get_or_create_engine_lock(t)
        \/ get_or_create_engine_hit(t)
        \/ get_or_create_engine_new(t)
        \/ get_or_create_engine_store(t)
        \/ transcribe_lock(t)
        \/ transcribe_as_ref(t)
        \/ cache_transcribe_return(t)

SpecCache ==
    InitCache /\ [][NextCache]_vars


-----------------------------------------------------------------------------
(* Pure audio helpers (core/audio.rs).  A sample buffer is a slice of the  *)
(* decoded stream: the sample at position k of the stream is the value k,  *)
(* so a slice is given by its first position and its length.               *)

WHISPER_SAMPLE_RATE == 16000
CHUNK_DURATION_SECS == 60
CHUNKING_THRESHOLD_SECS == 120

Slice(start, len) == [start |-> start, len |-> len]

Min(a, b) == IF a <= b THEN a ELSE b
CeilDiv(a, b) == (a + b - 1) \div b

\* fractions, for the f32/f64 quantities of the code
Frac(n, d) == [num |-> n, den |-> d]
FracLe(x, y) == x.num * y.den <= y.num * x.den
FracLt(x, y) == x.num * y.den < y.num * x.den
FracEq(x, y) == x.num * y.den = y.num * x.den
FracAdd(x, y) == Frac(x.num * y.den + y.num * x.den, x.den * y.den)
FracMul(x, y) == Frac(x.num * y.num, x.den * y.den)

\* faulty variant: slice::chunks_exact, which leaves the remainder out
slice_chunks_exact(buf, size) ==
    [k \in 1..(buf.len \div size) |-> Slice(buf.start + (k - 1) * size, size)]
\* slice::chunks(size): consecutive sub-slices of `size` elements, the last one
\* holding what is left
slice_chunks(buf, size) ==
    [k \in 1..CeilDiv(buf.len, size) |->
        Slice(buf.start + (k - 1) * size, Min(size, buf.len - (k - 1) * size))]

\* (CHUNK_DURATION_SECS * WHISPER_SAMPLE_RATE as f32) as usize
chunk_size == CHUNK_DURATION_SECS * WHISPER_SAMPLE_RATE

split_into_chunks(buf) == slice_chunks(buf, chunk_size)

\* samples.len() as f64 / WHISPER_SAMPLE_RATE as f64
calculate_duration(buf) == Frac(buf.len, WHISPER_SAMPLE_RATE)

\* faulty variant: the threshold itself is chunked
needs_chunking_ge(buf) ==
    FracLe(Frac(CHUNKING_THRESHOLD_SECS, 1), calculate_duration(buf))
\* duration > 120.0
needs_chunking(buf) ==
    FracLt(Frac(CHUNKING_THRESHOLD_SECS, 1), calculate_duration(buf))

-----------------------------------------------------------------------------
(* SpecPure: a pure function applied to inputs drawn from a bounded set    *)

PureDeltas == {-479999, -16000, -2, -1, 0, 1, 2, 3, 16000, 160000, 320000, 479999, 480000}
PureLengths ==
    {n \in {m * chunk_size + d : m \in 0..MaxMinutes, d \in PureDeltas} : n >= 0}
PureBuffers == {Slice(s, n) : s \in {0, 7}, n \in PureLengths}

pure_split_into_chunks ==
    /\ \E buf \in PureBuffers :
         /\ pf_in' = buf
         /\ pf_out' = split_into_chunks(buf)
    /\ pf_op' = "split_into_chunks"
    /\ UNCHANGED <<cacheVars, thistory, history, reqVars>>

pure_needs_chunking ==
    /\ \E buf \in PureBuffers :
         /\ pf_in' = buf
         /\ pf_out' = needs_chunking(buf)
    /\ pf_op' = "needs_chunking"
    /\ UNCHANGED <<cacheVars, thistory, history, reqVars>>

InitPure ==
    /\ CacheInit /\ current_engine = None /\ history = <<>>
    /\ ReqIdle /\ files = {} /\ PureIdle


\* C3: split_into_chunks returns consecutive, non-overlapping slices whose
\* concatenation in order is the buffer: each chunk but the last has exactly
\* 960000 samples, the last is non-empty and has at most 960000, and no sample
\* is dropped or duplicated.
C3_ChunksPartition ==
    pf_op = "split_into_chunks" =>
        LET n == Len(pf_out) IN
        /\ \A k \in 1..n :
             /\ pf_out[k].len >= 1
             /\ pf_out[k].len <= 960000
             /\ k < n => pf_out[k].len = 960000
             /\ pf_out[k].start =
                  (IF k = 1 THEN pf_in.start ELSE pf_out[k - 1].start + pf_out[k - 1].len)
        /\ IF n = 0 THEN pf_in.len = 0
           ELSE pf_out[n].start + pf_out[n].len = pf_in.start + pf_in.len

\* a buffer split into several chunks, the last one shorter
C3_Witness ==
    /\ pf_op = "split_into_chunks"
    /\ Len(pf_out) >= 3
    /\ pf_out[Len(pf_out)].len < 960000
    /\ pf_in.start > 0

-----------------------------------------------------------------------------
(* Text.  A text is the sequence of its pieces: one piece per segment the  *)
(* engine produced (with its "[HH:MM:SS]" tag when timestamps are on) and  *)
(* one per separator put between chunk texts.                              *)

NoTag == [h |-> -1, m |-> -1, s |-> -1]

\* faulty variant: the milliseconds are rounded to the nearest second
format_timestamp_rounded(ms) ==
    LET total_seconds == (ms + 500) \div 1000 IN
    [h |-> total_seconds \div 3600,
     m |-> (total_seconds % 3600) \div 60,
     s |-> total_seconds % 60]
\* format_timestamp_ms: "{:02}:{:02}:{:02}" of hours, minutes, seconds
format_timestamp_ms(ms) ==
    LET total_seconds == ms \div 1000 IN
    [h |-> total_seconds \div 3600,
     m |-> (total_seconds % 3600) \div 60,
     s |-> total_seconds % 60]

TagSeconds(tag) == tag.h * 3600 + tag.m * 60 + tag.s

\* transcribe_segment_with_options, from the segment starts (t0, in 10 ms
\* units) the engine reported for the buffer: each segment is a piece, tagged
\* with format_timestamp_ms(t0 * 10 + time_offset_ms) when include_timestamps
segment_text(segs, timestamps, time_offset_ms, chunk) ==
    [k \in 1..Len(segs) |->
        [sep |-> "", chunk |-> chunk, idx |-> k, t0 |-> segs[k],
         start_ms |-> segs[k] * 10 + time_offset_ms,
         tag |-> IF timestamps
                 THEN format_timestamp_ms(segs[k] * 10 + time_offset_ms)
                 ELSE NoTag]]

Separator(sep) ==
    [sep |-> sep, chunk |-> -1, idx |-> 0, t0 |-> 0, start_ms |-> 0, tag |-> NoTag]

RECURSIVE join_reversed(_, _)
\* faulty variant: the texts are joined last to first
join_reversed(texts, sep) ==
    IF Len(texts) = 0 THEN <<>>
    ELSE IF Len(texts) = 1 THEN texts[1]
    ELSE join_reversed(Tail(texts), sep) \o <<Separator(sep)>> \o texts[1]

RECURSIVE join(_, _)
\* transcriptions.join(separator)
join(texts, sep) ==
    IF Len(texts) = 0 THEN <<>>
    ELSE IF Len(texts) = 1 THEN texts[1]
    ELSE texts[1] \o <<Separator(sep)>> \o join(Tail(texts), sep)

\* ((total_ms as f64) * (speed as f64)).round() as i64, speed in hundredths
RoundMul(total_ms, speed100) == (total_ms * speed100 + 50) \div 100

\* the regular expression \[(\d{2}):(\d{2}):(\d{2})\] matches a tag of two
\* digits per field
RegexMatches(tag) ==
    tag # NoTag /\ tag.h \in 0..99 /\ tag.m \in 0..99 /\ tag.s \in 0..99

\* adjust_timestamps_in_text: every matched tag is parsed, scaled and
\* formatted again
adjust_timestamps_in_text(text, speed100) ==
    [k \in 1..Len(text) |->
        IF RegexMatches(text[k].tag)
        THEN LET total_ms == TagSeconds(text[k].tag) * 1000
                 adjusted_ms == RoundMul(total_ms, speed100)
             IN  [text[k] EXCEPT !.tag = format_timestamp_ms(adjusted_ms)]
        ELSE text[k]]

-----------------------------------------------------------------------------
(* Progress events: app.emit("transcription-progress", ..)                 *)

Started == [type |-> "started", progress |-> Frac(0, 1), has_text |-> FALSE,
            chunk_text |-> <<>>]
Completed == [type |-> "completed", progress |-> Frac(0, 1), has_text |-> FALSE,
              chunk_text |-> <<>>]
Progress(fr) == [type |-> "progress", progress |-> fr, has_text |-> FALSE,
                 chunk_text |-> <<>>]
\* faulty variant: the text is left out of the payload
ProgressWithoutText(fr, text) == [type |-> "progress", progress |-> fr,
                                  has_text |-> FALSE, chunk_text |-> <<>>]
ProgressText(fr, text) == [type |-> "progress", progress |-> fr, has_text |-> TRUE,
                           chunk_text |-> text]

\* the on_progress closure of transcribe_file: 0.2 + progress * 0.8
file_on_progress(progress) == FracAdd(Frac(2, 10), FracMul(progress, Frac(8, 10)))
\* the on_progress closure of transcribe_youtube: 0.3 + progress * 0.7
youtube_on_progress(progress) == FracAdd(Frac(3, 10), FracMul(progress, Frac(7, 10)))

on_progress(progress) ==
    IF kind = "youtube" THEN youtube_on_progress(progress) ELSE file_on_progress(progress)

\* faulty variant: i as f32 + 0.5 / total_chunks as f32
chunk_start_unparenthesised(i, total_chunks) ==
    Frac(2 * i * total_chunks + 1, 2 * total_chunks)
\* (i as f32 + 0.5) / total_chunks as f32
chunk_start_progress(i, total_chunks) == Frac(2 * i + 1, 2 * total_chunks)
\* (i + 1) as f32 / total_chunks as f32
chunk_done_progress(i, total_chunks) == Frac(i + 1, total_chunks)

-----------------------------------------------------------------------------
(* External tools and the engine: what they may answer                     *)

\* options.speed values a caller may send, in hundredths
RequestedSpeeds == {50, 100, 101, 150, 200, 250}

\* options.speed.clamp(1.0, 2.0)
clamp_speed(s) == IF s < 100 THEN 100 ELSE IF s > 200 THEN 200 ELSE s

\* faulty variant: `speed >= 1.01`
speedup_requested_ge(s) == s >= 101
\* `speed > 1.01`
speedup_requested(s) == s > 101

\* the result of a call of an external tool: Ok(path) or Err, the files the
\* tool wrote, whether the tool was probed for and whether it was run
ToolResult(ok, path, wrote, probed, ran) ==
    [ok |-> ok, path |-> path, wrote |-> wrote, probed |-> probed, ran |-> ran]

\* find_ffmpeg returns None; ffmpeg cannot be started or exits with a failure,
\* having written nothing or a partial output file; ffmpeg succeeds
run_ffmpeg(output_path) ==
    {ToolResult(FALSE, None, {}, TRUE, FALSE),
     ToolResult(FALSE, None, {}, TRUE, TRUE),
     ToolResult(FALSE, None, {output_path}, TRUE, TRUE),
     ToolResult(TRUE, output_path, {output_path}, TRUE, TRUE)}

\* extract_audio_from_video: ffmpeg missing, ffmpeg failing, or the new file
extract_audio_from_video(path) == run_ffmpeg(ExtractedFile)

\* faulty variant: `speed <= 0.5 || speed >= 2.0`
apply_audio_speedup_exclusive(path, s) ==
    IF s <= 50 \/ s >= 200 THEN {ToolResult(FALSE, None, {}, FALSE, FALSE)}
    ELSE IF s >= 99 /\ s <= 101 THEN {ToolResult(TRUE, path, {}, FALSE, FALSE)}
    ELSE run_ffmpeg(SpeedupFile)
\* faulty variant: `speed == 1.0`
apply_audio_speedup_exact(path, s) ==
    IF s < 50 \/ s > 200 THEN {ToolResult(FALSE, None, {}, FALSE, FALSE)}
    ELSE IF s = 100 THEN {ToolResult(TRUE, path, {}, FALSE, FALSE)}
    ELSE run_ffmpeg(SpeedupFile)
\* apply_audio_speedup: range check, no-op near 1.0 (|speed - 1.0| < 0.01 holds
\* in f32 for 0.99 and 1.01 as well), else ffmpeg missing, failing or the new file
apply_audio_speedup(path, s) ==
    IF s < 50 \/ s > 200 THEN {ToolResult(FALSE, None, {}, FALSE, FALSE)}
    ELSE IF s >= 99 /\ s <= 101 THEN {ToolResult(TRUE, path, {}, FALSE, FALSE)}
    ELSE run_ffmpeg(SpeedupFile)

\* download_youtube_audio: yt-dlp failing, or the downloaded file
download_youtube_audio ==
    {ToolResult(FALSE, None, {}, TRUE, FALSE),
     ToolResult(TRUE, YoutubeFile, {YoutubeFile}, TRUE, TRUE)}

\* lengths, in samples, decode_audio_to_whisper_format may return
DecodeLengths ==
    {n \in {m * chunk_size + d : m \in 0..MaxMinutes, d \in {-1, 0, 1}} : n >= 0}

\* segment starts (t0, in 10 ms units) the engine may report for one buffer:
\* every segment starts inside the buffer
EngineSegments(buf) ==
    {g \in {<<>>, <<190, 5900>>} :
        \A k \in 1..Len(g) : g[k] * 10 * WHISPER_SAMPLE_RATE < buf.len * 1000}

\* state.full(params, samples) and the reads that follow: an error, or segments
EngineResults(buf) == {[ok |-> FALSE, segs |-> <<>>]} \cup
                      {[ok |-> TRUE, segs |-> g] : g \in EngineSegments(buf)}

\* detect_language_from_samples: an error, or a language code
DetectResults == {[ok |-> FALSE, lang |-> NoName], [ok |-> TRUE, lang |-> "en"]}

\* (30.0 * 16000.0) as usize
DETECT_SAMPLES == 480000

\* faulty variant: the buffer is not truncated
detect_whole(buf) == buf
\* `if samples.len() > sample_size { &samples[..sample_size] } else { samples }`
detect_window(buf) == Slice(buf.start, Min(buf.len, DETECT_SAMPLES))

\* one call of state.full: what was handed to the engine, whether it
\* succeeded, and how many events had been emitted when it was made
Pass(op, buf, offset, chunk, ok, seen) ==
    [op |-> op, buf |-> buf, offset |-> offset, chunk |-> chunk, ok |-> ok,
     seen |-> seen]

\* (CHUNK_DURATION_SECS * 1000.0) as i64
chunk_duration_ms == CHUNK_DURATION_SECS * 1000

\* faulty variant: chunks are counted from one
time_offset_from_one(i) == (i + 1) * chunk_duration_ms
\* (i as i64) * chunk_duration_ms
time_offset_ms(i) == i * chunk_duration_ms

MAX_HISTORY_ENTRIES == 50

\* history.insert(0, entry); history.truncate(MAX_HISTORY_ENTRIES)
save_transcription(hist, entry) ==
    SubSeq(<<entry>> \o hist, 1, Min(Len(hist) + 1, MAX_HISTORY_ENTRIES))

\* save_transcription fails before history.json is written, fails in
\* save_as_txt after it was written, or succeeds
SaveOutcomes == {"ok", "err_before_write", "err_after_write"}

-----------------------------------------------------------------------------
(* SpecPure, continued: the speed and cleanup helpers                      *)

\* f64::round of the quotient n / d (d > 0): to the nearest integer, halves
\* away from zero
RoundDiv(n, d) ==
    IF n >= 0 THEN (2 * n + d) \div (2 * d)
    ELSE -((2 * (-n) + d) \div (2 * d))

\* speed factors as the exact value of the f32: 1.0, 1.25, 1.5, 2.0 and 0.5
\* are dyadic; 1.1f32 is 9227469 / 2^23 and 1.3f32 is 10905190 / 2^23
DyadicFactors == {Frac(1, 1), Frac(5, 4), Frac(3, 2), Frac(2, 1), Frac(1, 2)}
RoundedFactors == {Frac(9227469, 8388608), Frac(10905190, 8388608)}

\* faulty variant: the timestamp is divided by the factor
adjust_timestamp_by_division(timestamp_ms, s) ==
    RoundDiv(timestamp_ms * s.den, s.num)
\* ((timestamp_ms as f64) * (speed as f64)).round() as i64; the product of an
\* integer below 2^29 and a 24-bit significand is exact in f64
adjust_timestamp_for_speed(timestamp_ms, s) ==
    RoundDiv(timestamp_ms * s.num, s.den)

\* pairs of timestamps t1 <= t2 with a factor: small timestamps with every
\* factor, timestamps of whole minutes with the dyadic factors
SmallTimestamps == {-5, 0, 1, 2, 3, 5, 7, 25}
LongTimestamps == {1900, 59000, 60000, 120000}
TimestampInputs ==
    {[t1 |-> a, t2 |-> b, s |-> f] :
        a \in SmallTimestamps, b \in SmallTimestamps,
        f \in DyadicFactors \cup RoundedFactors}
    \cup
    {[t1 |-> a, t2 |-> b, s |-> f] :
        a \in LongTimestamps, b \in SmallTimestamps \cup LongTimestamps,
        f \in DyadicFactors}

pure_adjust_timestamp_for_speed ==
    /\ \E in \in {i \in TimestampInputs : i.t1 <= i.t2} :
         /\ pf_in' = in
         /\ pf_out' = <<adjust_timestamp_for_speed(in.t1, in.s),
                        adjust_timestamp_for_speed(in.t2, in.s)>>
    /\ pf_op' = "adjust_timestamp_for_speed"
    /\ UNCHANGED <<cacheVars, thistory, history, reqVars>>

\* speed factors, in hundredths, around the limits and around 1.0
PureSpeeds == {40, 49, 50, 51, 99, 100, 101, 102, 150, 200, 201, 250}
PurePaths == UserFiles \cup {SpeedupFile, ExtractedFile}

\* apply_audio_speedup(input_path, speed), and the same call on its result
pure_apply_audio_speedup ==
    /\ \E path \in PurePaths, s \in PureSpeeds :
         \E r \in apply_audio_speedup(path, s) :
            /\ pf_in' = [path |-> path, speed |-> s]
            /\ pf_out' = [first |-> r, again |-> apply_audio_speedup(r.path, s)]
    /\ pf_op' = "apply_audio_speedup"
    /\ UNCHANGED <<cacheVars, thistory, history, reqVars>>

\* paths a cleanup function may be called with, and the files on disk
CleanupPaths ==
    UserFiles \cup {SpeedupFile, ExtractedFile, Path("user", {SPEEDUP_TAG}, "wav")}

pure_cleanup_speedup_file ==
    /\ \E fs \in SUBSET CleanupPaths, path \in CleanupPaths :
         /\ pf_in' = [fs |-> fs, path |-> path]
         /\ pf_out' = cleanup_speedup_file(fs, path)
    /\ pf_op' = "cleanup_speedup_file"
    /\ UNCHANGED <<cacheVars, thistory, history, reqVars>>

pure_cleanup_extracted_audio ==
    /\ \E fs \in SUBSET CleanupPaths, path \in CleanupPaths :
         /\ pf_in' = [fs |-> fs, path |-> path]
         /\ pf_out' = cleanup_extracted_audio(fs, path)
    /\ pf_op' = "cleanup_extracted_audio"
    /\ UNCHANGED <<cacheVars, thistory, history, reqVars>>

\* readings of chrono::Utc::now(): a millisecond and the part below it
ClockReadings == {[ms |-> m, sub |-> u] : m \in 0..1, u \in 0..1}
ClockLe(a, b) == a.ms < b.ms \/ (a.ms = b.ms /\ a.sub <= b.sub)

\* now.format("%Y%m%d_%H%M%S_%3f"): the date and time down to the millisecond
format_now(now) == now.ms

\* temp_dir.join(format!("audioink_speedup_{}.wav", timestamp))
speedup_output_path(now) ==
    [dir |-> "temp", tags |-> {SPEEDUP_TAG}, ext |-> "wav", stamp |-> format_now(now)]
\* temp_dir.join(format!("audioink_extracted_{}.wav", timestamp))
extracted_output_path(now) ==
    [dir |-> "temp", tags |-> {EXTRACTED_TAG}, ext |-> "wav", stamp |-> format_now(now)]

\* two invocations of apply_audio_speedup that each create their output file
\* (ffmpeg runs with -y), after which the first caller cleans its file up
pure_apply_audio_speedup_twice ==
    /\ \E n1 \in ClockReadings, n2 \in ClockReadings :
         /\ ClockLe(n1, n2)
         /\ pf_in' = [first |-> n1, second |-> n2]
         /\ LET p1 == speedup_output_path(n1)
                p2 == speedup_output_path(n2)
            IN  pf_out' = [paths |-> <<p1, p2>>,
                           left |-> cleanup_speedup_file({p1, p2}, p1)]
    /\ pf_op' = "apply_audio_speedup_twice"
    /\ UNCHANGED <<cacheVars, thistory, history, reqVars>>

\* the same for two invocations of extract_audio_from_video
pure_extract_audio_from_video_twice ==
    /\ \E n1 \in ClockReadings, n2 \in ClockReadings :
         /\ ClockLe(n1, n2)
         /\ pf_in' = [first |-> n1, second |-> n2]
         /\ LET p1 == extracted_output_path(n1)
                p2 == extracted_output_path(n2)
            IN  pf_out' = [paths |-> <<p1, p2>>,
                           left |-> cleanup_extracted_audio({p1, p2}, p1)]
    /\ pf_op' = "extract_audio_from_video_twice"
    /\ UNCHANGED <<cacheVars, thistory, history, reqVars>>

\* what format.next_packet() and decoder.decode() may yield before the end of
\* the stream: a packet that decodes, a packet whose decoding fails,
\* Error::ResetRequired, or another error of next_packet
PacketKinds == {"packet", "bad_packet", "reset", "read_error"}
Streams == UNION {[1..n -> PacketKinds] : n \in 0..MaxPackets}

RECURSIVE decode_loop(_, _, _)
\* the `loop` of decode_audio_to_whisper_format from packet k on: the end of the
\* stream (UnexpectedEof) and any other error of next_packet both `break`,
\* ResetRequired and a failed decode `continue`
decode_loop(stream, k, all_samples) ==
    IF k > Len(stream) THEN [decoded |-> all_samples, at_eof |-> TRUE]
    ELSE IF stream[k] = "read_error" THEN [decoded |-> all_samples, at_eof |-> FALSE]
    ELSE IF stream[k] = "packet" THEN decode_loop(stream, k + 1, Append(all_samples, k))
    ELSE decode_loop(stream, k + 1, all_samples)

\* decode_audio_to_whisper_format once the decoder is made: whatever ended the
\* loop, the samples collected so far are returned as Ok
decode_packets(stream) ==
    LET r == decode_loop(stream, 1, <<>>)
    IN  [ok |-> TRUE, decoded |-> r.decoded, at_eof |-> r.at_eof]

pure_decode_packets ==
    /\ \E stream \in Streams :
         /\ pf_in' = stream
         /\ pf_out' = decode_packets(stream)
    /\ pf_op' = "decode_packets"
    /\ UNCHANGED <<cacheVars, thistory, history, reqVars>>

\* source rates and input lengths for resample
SourceRates == {8000, 11025, 16000, 22050, 44100, 48000, 96000}
SourceLengths == {0, 1, 2, 3, 441, 4410, 11025, 44100, 48000, 96000}

\* faulty variant: the ratio is inverted
resample_len_inverted(n, from_rate, to_rate) ==
    IF from_rate = to_rate THEN {n} ELSE {(n * from_rate) \div to_rate}
\* (samples.len() as f64 / ratio) as usize with ratio = from_rate / to_rate in
\* f64: the quotient truncated; both divisions round, so where the exact
\* quotient is a positive integer the f64 may fall just below it
resample_len(n, from_rate, to_rate) ==
    IF from_rate = to_rate THEN {n}
    ELSE LET exact == (n * to_rate) \div from_rate
         IN  IF (n * to_rate) % from_rate = 0 /\ exact > 0
             THEN {exact - 1, exact}
             ELSE {exact}

\* resample: `samples.to_vec()` when the rates are equal, else new_len
\* interpolated samples
resample(n, from_rate, to_rate) ==
    {[len |-> l, copied |-> from_rate = to_rate] :
        l \in resample_len(n, from_rate, to_rate)}

pure_resample ==
    /\ \E n \in SourceLengths, from_rate \in SourceRates :
         \E r \in resample(n, from_rate, WHISPER_SAMPLE_RATE) :
            /\ pf_in' = [len |-> n, from_rate |-> from_rate]
            /\ pf_out' = r
    /\ pf_op' = "resample"
    /\ UNCHANGED <<cacheVars, thistory, history, reqVars>>

NextPure ==
    \/ pure_split_into_chunks
    \/ pure_needs_chunking
    \/ pure_adjust_timestamp_for_speed
    \/ pure_apply_audio_speedup
    \/ pure_cleanup_speedup_file
    \/ pure_cleanup_extracted_audio
    \/ pure_apply_audio_speedup_twice
    \/ pure_extract_audio_from_video_twice
    \/ pure_decode_packets
    \/ pure_resample

SpecPure == InitPure /\ [][NextPure]_vars

-----------------------------------------------------------------------------
(* Spec: one request, run by thread Main                                   *)

optVars   == <<kind, input_path, speed, include_timestamps>>
pathVars  == <<extracted_audio_path, speedup_path, base_audio_path, decode_path>>
audioVars == <<samples, audio_info>>
runVars   == <<passes, chunks, chunk_i, transcriptions, detected_language, result>>
slotVars  == <<current_engine, mutex, tmodel, tseen, tloads, tengine, last_ok>>

At(pc) == tpc[Main] = pc
Goto(pc) == tpc' = [tpc EXCEPT ![Main] = pc]

\* the command returns Err(..): `?` or an explicit return
Return_Err(stage) == Goto("failed") /\ outcome' = Err(stage)

\* transcribe_file up to the "started" event: the path must exist, the model
\* name must parse and the model must be downloaded
transcribe_file_begin ==
    /\ At("idle") /\ kind = NoName
    /\ \E p \in InputFiles, m \in Models, ts \in BOOLEAN, s \in RequestedSpeeds,
          pre \in {"ok", "unknown_model", "not_downloaded"} :
         /\ kind' = "file" /\ input_path' = p /\ include_timestamps' = ts
         /\ speed' = clamp_speed(s)
         /\ IF p \notin files \/ pre # "ok"
            THEN /\ Return_Err("input")
                 /\ UNCHANGED <<events, tmodel>>
            ELSE /\ events' = Append(events, Started)
                 /\ tmodel' = [tmodel EXCEPT ![Main] = m]
                 /\ Goto("extract")
                 /\ UNCHANGED outcome
    /\ UNCHANGED <<current_engine, mutex, tseen, tloads, tengine, last_ok, history,
                   pathVars, created, audioVars, runVars, cancel_requested, files,
                   pureVars, thistory>>

\* "Extract audio from video if needed"
transcribe_file_extract ==
    /\ At("extract") /\ kind = "file"
    /\ IF is_video_format(input_path)
       THEN /\ events' = Append(events, Progress(Frac(2, 100)))
            /\ \E r \in extract_audio_from_video(input_path) :
                 /\ files' = files \cup r.wrote
                 /\ created' = created \cup r.wrote
                 /\ IF r.ok
                    THEN /\ extracted_audio_path' = r.path
                         /\ base_audio_path' = r.path
                         /\ Goto("speedup")
                         /\ UNCHANGED outcome
                    ELSE /\ Return_Err("extract")
                         /\ UNCHANGED <<extracted_audio_path, base_audio_path>>
       ELSE /\ base_audio_path' = input_path
            /\ Goto("speedup")
            /\ UNCHANGED <<events, files, created, extracted_audio_path, outcome>>
    /\ UNCHANGED <<slotVars, history, optVars, speedup_path, decode_path, audioVars,
                   runVars, cancel_requested, pureVars, thistory>>

\* "Apply speedup if needed"
transcribe_file_speedup ==
    /\ At("speedup") /\ kind = "file"
    /\ IF speedup_requested(speed)
       THEN /\ events' = Append(events, Progress(Frac(5, 100)))
            /\ \E r \in apply_audio_speedup(base_audio_path, speed) :
                 /\ files' = files \cup r.wrote
                 /\ created' = created \cup r.wrote
                 /\ IF r.ok
                    THEN /\ speedup_path' = r.path
                         /\ decode_path' = r.path
                         /\ Goto("decode")
                         /\ UNCHANGED outcome
                    ELSE /\ Return_Err("speedup")
                         /\ UNCHANGED <<speedup_path, decode_path>>
       ELSE /\ decode_path' = base_audio_path
            /\ Goto("decode")
            /\ UNCHANGED <<events, files, created, speedup_path, outcome>>
    /\ UNCHANGED <<slotVars, history, optVars, extracted_audio_path, base_audio_path,
                   audioVars, runVars, cancel_requested, pureVars, thistory>>

\* faulty variant: the duration is scaled from a speed of 1.01 on
audio_duration_ge(buf, s) ==
    IF s >= 101
    THEN FracMul(calculate_duration(buf), Frac(s, 100))
    ELSE calculate_duration(buf)
\* AudioInfo.duration, scaled back when the audio was sped up
audio_duration(buf, s) ==
    IF speedup_requested(s)
    THEN FracMul(calculate_duration(buf), Frac(s, 100))
    ELSE calculate_duration(buf)

\* faulty variant: the temporary files are kept
keep_temp_files(fs, sp, ex) == fs
\* "Clean up speedup temp file" and "Clean up extracted audio temp file"
file_cleanup(fs, sp, ex) ==
    LET fs1 == IF sp # None THEN cleanup_speedup_file(fs, sp) ELSE fs
    IN  IF ex # None THEN cleanup_extracted_audio(fs1, ex) ELSE fs1

\* "Decodificar audio" to the "Cargando modelo Whisper..." event
transcribe_file_decode ==
    /\ At("decode") /\ kind = "file"
    /\ \E ok \in BOOLEAN, n \in DecodeLengths :
         IF ok /\ decode_path \in files
         THEN /\ samples' = Slice(0, n)
              /\ audio_info' = audio_duration(Slice(0, n), speed)
              /\ files' = file_cleanup(files, speedup_path, extracted_audio_path)
              /\ events' = events \o <<Progress(Frac(1, 10)), Progress(Frac(2, 10))>>
              /\ Goto("engine")
              /\ UNCHANGED outcome
         ELSE /\ events' = Append(events, Progress(Frac(1, 10)))
              /\ Return_Err("decode")
              /\ UNCHANGED <<samples, audio_info, files>>
    /\ UNCHANGED <<slotVars, history, optVars, pathVars, created, runVars,
                   cancel_requested, pureVars, thistory>>

\* `state.get_or_create_engine(&model).map_err(|e| e.to_string())?`
get_or_create_engine_failed ==
    /\ At("goc_err") /\ kind # NoName
    /\ Return_Err("engine")
    /\ UNCHANGED <<slotVars, history, reqRest, files, pureVars, thistory>>

\* WhisperEngine::transcribe_with_timestamps: "Verificar si necesita
\* procesamiento en chunks"; the chunked driver starts with split_into_chunks
transcribe_with_timestamps ==
    /\ At("tr_run") /\ kind # NoName
    /\ IF needs_chunking(samples)
       THEN /\ chunks' = split_into_chunks(samples)
            /\ Goto("chunk_detect")
       ELSE /\ chunks' = chunks
            /\ Goto("short_transcribe")
    /\ UNCHANGED <<slotVars, history, optVars, pathVars, created, audioVars, events,
                   passes, chunk_i, transcriptions, detected_language, result,
                   cancel_requested, files, outcome, pureVars, thistory>>

\* the engine call failed: the error is returned through `?`, which drops the
\* guard on the slot
engine_error(stage) ==
    /\ mutex' = NoThread
    /\ Return_Err(stage)

\* short audio: `transcribe_segment_with_options(samples, .., 0)?`
transcribe_short_segment ==
    /\ At("short_transcribe")
    /\ \E r \in EngineResults(samples) :
         /\ passes' = Append(passes, Pass("transcribe", samples, 0, 0, r.ok, Len(events)))
         /\ IF r.ok
            THEN /\ transcriptions' = <<segment_text(r.segs, include_timestamps, 0, 0)>>
                 /\ Goto("short_detect")
                 /\ UNCHANGED <<mutex, outcome>>
            ELSE /\ engine_error("transcribe")
                 /\ UNCHANGED transcriptions
    /\ UNCHANGED <<current_engine, tmodel, tseen, tloads, tengine, last_ok, history,
                   optVars, pathVars, created, audioVars, events, chunks, chunk_i,
                   detected_language, result, cancel_requested, files, pureVars, thistory>>

TranscriptionResult(text, language, info) ==
    [text |-> text, language |-> language, audio_info |-> info]

\* short audio: `detect_language_from_samples(samples)?`, the callback with the
\* whole text, and the result
transcribe_short_detect ==
    /\ At("short_detect")
    /\ \E r \in DetectResults :
         /\ passes' = Append(passes, Pass("detect", detect_window(samples), 0, 0, r.ok,
                                          Len(events)))
         /\ IF r.ok
            THEN /\ detected_language' = r.lang
                 /\ events' = Append(events,
                       ProgressText(on_progress(Frac(1, 1)), transcriptions[1]))
                 /\ result' = TranscriptionResult(transcriptions[1], r.lang, audio_info)
                 /\ mutex' = NoThread
                 /\ Goto("save")
                 /\ UNCHANGED outcome
            ELSE /\ engine_error("detect")
                 /\ UNCHANGED <<detected_language, events, result>>
    /\ UNCHANGED <<current_engine, tmodel, tseen, tloads, tengine, last_ok, history,
                   optVars, pathVars, created, audioVars, chunks, chunk_i,
                   transcriptions, cancel_requested, files, pureVars, thistory>>

\* long audio: "Detectar idioma en el primer chunk"
transcribe_chunked_detect ==
    /\ At("chunk_detect")
    /\ IF Len(chunks) > 0
       THEN \E r \in DetectResults :
                 /\ passes' = Append(passes,
                                     Pass("detect", detect_window(chunks[1]), 0, 0, r.ok,
                                          Len(events)))
                 /\ IF r.ok
                    THEN /\ detected_language' = r.lang
                         /\ Goto("chunk_loop")
                         /\ UNCHANGED <<mutex, outcome>>
                    ELSE /\ engine_error("detect")
                         /\ UNCHANGED detected_language
       ELSE /\ detected_language' = "unknown"
            /\ Goto("chunk_loop")
            /\ UNCHANGED <<passes, mutex, outcome>>
    /\ chunk_i' = 0
    /\ UNCHANGED <<current_engine, tmodel, tseen, tloads, tengine, last_ok, history,
                   optVars, pathVars, created, audioVars, events, chunks,
                   transcriptions, result, cancel_requested, files, pureVars, thistory>>

\* faulty variant: a failed chunk is skipped and the loop goes on
chunk_error_skipped(i) ==
    /\ chunk_i' = i + 1
    /\ transcriptions' = Append(transcriptions, <<>>)
    /\ UNCHANGED <<mutex, tpc, outcome>>
\* `transcribe_segment_with_options(chunk, ..)?` failed on chunk i
chunk_error(i) ==
    /\ engine_error("transcribe")
    /\ UNCHANGED <<chunk_i, transcriptions>>

\* one turn of `for (i, chunk) in chunks.iter().enumerate()`
transcribe_chunked_chunk ==
    /\ At("chunk_loop") /\ chunk_i < Len(chunks)
    /\ LET i == chunk_i
           total_chunks == Len(chunks)
           before == Progress(on_progress(chunk_start_progress(i, total_chunks)))
       IN  \E r \in EngineResults(chunks[i + 1]) :
             /\ passes' = Append(passes,
                    Pass("transcribe", chunks[i + 1], time_offset_ms(i), i, r.ok,
                         Len(events) + 1))
             /\ IF r.ok
                THEN LET text == segment_text(r.segs, include_timestamps,
                                              time_offset_ms(i), i)
                     IN  /\ transcriptions' = Append(transcriptions, text)
                         /\ events' = events \o
                              <<before,
                                ProgressText(
                                    on_progress(chunk_done_progress(i, total_chunks)),
                                    text)>>
                         /\ chunk_i' = i + 1
                         /\ UNCHANGED <<mutex, tpc, outcome>>
                ELSE /\ events' = Append(events, before)
                     /\ chunk_error(i)
    /\ UNCHANGED <<current_engine, tmodel, tseen, tloads, tengine, last_ok, history,
                   optVars, pathVars, created, audioVars, chunks, detected_language,
                   result, cancel_requested, files, pureVars, thistory>>

\* after the loop: the chunk texts joined by "\n" (timestamps) or " "
transcribe_chunked_join ==
    /\ At("chunk_loop") /\ chunk_i = Len(chunks)
    /\ LET separator == IF include_timestamps THEN "\n" ELSE " "
           full_text == join(transcriptions, separator)
       IN  result' = TranscriptionResult(full_text, detected_language, audio_info)
    /\ mutex' = NoThread
    /\ Goto("save")
    /\ UNCHANGED <<current_engine, tmodel, tseen, tloads, tengine, last_ok, history,
                   optVars, pathVars, created, audioVars, events, passes, chunks,
                   chunk_i, transcriptions, detected_language, cancel_requested,
                   files, outcome, pureVars, thistory>>

\* the host asks for the running chunked transcription to be cancelled
request_cancel ==
    /\ At("chunk_loop") /\ ~cancel_requested
    /\ cancel_requested' = TRUE
    /\ UNCHANGED <<cacheVars, history, optVars, pathVars, created, audioVars, events,
                   runVars, files, outcome, pureVars, thistory>>

\* "Adjust timestamps for speedup if needed"
final_text(text) ==
    IF speedup_requested(speed) /\ include_timestamps
    THEN adjust_timestamps_in_text(text, speed)
    ELSE text

TranscriptionEntry(source_type, res) ==
    [source_type |-> source_type, transcription |-> res.text,
     audio_info |-> res.audio_info, detected_language |-> res.language]

\* transcribe_file from "Adjust timestamps for speedup if needed" to Ok(result)
transcribe_file_finish ==
    /\ At("save") /\ kind = "file"
    /\ LET res == [result EXCEPT !.text = final_text(result.text)]
           entry == TranscriptionEntry("whisper", res)
       IN  /\ result' = res
           /\ \E o \in SaveOutcomes :
                /\ history' = IF o = "err_before_write" THEN history
                              ELSE save_transcription(history, entry)
                /\ IF o = "ok"
                   THEN /\ events' = Append(events, Completed)
                        /\ outcome' = Ok(res)
                        /\ Goto("done")
                   ELSE /\ Return_Err("save")
                        /\ UNCHANGED events
    /\ UNCHANGED <<slotVars, optVars, pathVars, created, audioVars, passes, chunks,
                   chunk_i, transcriptions, detected_language, cancel_requested,
                   files, pureVars, thistory>>

\* transcribe_youtube up to the first progress event: yt-dlp must be
\* available, the model name must parse and the model must be downloaded
transcribe_youtube_begin ==
    /\ At("idle") /\ kind = NoName
    /\ \E m \in Models, ts \in BOOLEAN, s \in RequestedSpeeds,
          pre \in {"ok", "no_ytdlp", "unknown_model", "not_downloaded"} :
         /\ kind' = "youtube" /\ include_timestamps' = ts
         /\ speed' = clamp_speed(s)
         /\ IF pre # "ok"
            THEN /\ Return_Err("input")
                 /\ UNCHANGED <<events, tmodel>>
            ELSE /\ events' = events \o <<Started, Progress(Frac(5, 100))>>
                 /\ tmodel' = [tmodel EXCEPT ![Main] = m]
                 /\ Goto("download")
                 /\ UNCHANGED outcome
    /\ UNCHANGED <<current_engine, mutex, tseen, tloads, tengine, last_ok, history,
                   input_path, pathVars, created, audioVars, runVars,
                   cancel_requested, files, pureVars, thistory>>

\* "Download audio from YouTube"
transcribe_youtube_download ==
    /\ At("download")
    /\ \E r \in download_youtube_audio :
         /\ files' = files \cup r.wrote
         /\ created' = created \cup r.wrote
         /\ IF r.ok
            THEN /\ base_audio_path' = r.path
                 /\ Goto("speedup")
                 /\ UNCHANGED outcome
            ELSE /\ Return_Err("download")
                 /\ UNCHANGED base_audio_path
    /\ UNCHANGED <<slotVars, history, optVars, extracted_audio_path, speedup_path,
                   decode_path, audioVars, events, runVars, cancel_requested,
                   pureVars, thistory>>

\* "Apply speedup if needed"
transcribe_youtube_speedup ==
    /\ At("speedup") /\ kind = "youtube"
    /\ IF speedup_requested(speed)
       THEN /\ events' = Append(events, Progress(Frac(15, 100)))
            /\ \E r \in apply_audio_speedup(base_audio_path, speed) :
                 /\ files' = files \cup r.wrote
                 /\ created' = created \cup r.wrote
                 /\ IF r.ok
                    THEN /\ speedup_path' = r.path
                         /\ decode_path' = r.path
                         /\ Goto("decode")
                         /\ UNCHANGED outcome
                    ELSE /\ Return_Err("speedup")
                         /\ UNCHANGED <<speedup_path, decode_path>>
       ELSE /\ decode_path' = base_audio_path
            /\ Goto("decode")
            /\ UNCHANGED <<events, files, created, speedup_path, outcome>>
    /\ UNCHANGED <<slotVars, history, optVars, extracted_audio_path, base_audio_path,
                   audioVars, runVars, cancel_requested, pureVars, thistory>>

\* "Decode audio" to the "Loading Whisper model..." event
transcribe_youtube_decode ==
    /\ At("decode") /\ kind = "youtube"
    /\ \E ok \in BOOLEAN, n \in DecodeLengths :
         IF ok /\ decode_path \in files
         THEN /\ samples' = Slice(0, n)
              /\ audio_info' = audio_duration(Slice(0, n), speed)
              /\ files' = file_cleanup(files, speedup_path, None)
              /\ events' = events \o <<Progress(Frac(2, 10)), Progress(Frac(3, 10))>>
              /\ Goto("engine")
              /\ UNCHANGED outcome
         ELSE /\ events' = Append(events, Progress(Frac(2, 10)))
              /\ Return_Err("decode")
              /\ UNCHANGED <<samples, audio_info, files>>
    /\ UNCHANGED <<slotVars, history, optVars, pathVars, created, runVars,
                   cancel_requested, pureVars, thistory>>

\* transcribe_youtube from "Adjust timestamps for speedup if needed" to Ok(result)
transcribe_youtube_finish ==
    /\ At("save") /\ kind = "youtube"
    /\ LET res == [result EXCEPT !.text = final_text(result.text)]
           entry == TranscriptionEntry("youtube_whisper", res)
       IN  /\ result' = res
           /\ \E o \in SaveOutcomes :
                /\ history' = IF o = "err_before_write" THEN history
                              ELSE save_transcription(history, entry)
                /\ IF o = "ok"
                   THEN /\ files' = cleanup_youtube_audio(files, base_audio_path)
                        /\ events' = Append(events, Completed)
                        /\ outcome' = Ok(res)
                        /\ Goto("done")
                   ELSE /\ Return_Err("save")
                        /\ UNCHANGED <<events, files>>
    /\ UNCHANGED <<slotVars, optVars, pathVars, created, audioVars, passes, chunks,
                   chunk_i, transcriptions, detected_language, cancel_requested,
                   pureVars, thistory>>

\* the application before the request: the slot is empty or holds the engine
\* an earlier request left; the user's files exist or not
Init ==
    /\ CacheInit /\ history = <<>> /\ ReqIdle /\ PureIdle
    /\ SlotModel(current_engine) \in {NoName, "tiny"}
    /\ files \in {InputFiles, {}}

Next ==
    \/ transcribe_file_begin
    \/ transcribe_file_extract
    \/ transcribe_file_speedup
    \/ transcribe_file_decode
    \/ transcribe_youtube_begin
    \/ transcribe_youtube_download
    \/ transcribe_youtube_speedup
    \/ transcribe_youtube_decode
    \/ get_or_create_engine_lock(Main)
    \/ get_or_create_engine_hit(Main)
    \/ get_or_create_engine_new(Main)
    \/ get_or_create_engine_store(Main)
    \/ get_or_create_engine_failed
    \/ transcribe_lock(Main)
    \/ transcribe_as_ref(Main)
    \/ transcribe_with_timestamps
    \/ transcribe_short_segment
    \/ transcribe_short_detect
    \/ transcribe_chunked_detect
    \/ transcribe_chunked_chunk
    \/ transcribe_chunked_join
    \/ request_cancel
    \/ transcribe_file_finish
    \/ transcribe_youtube_finish

Spec == Init /\ [][Next]_vars

-----------------------------------------------------------------------------
(* Claims about the engine cache (SpecCache)                               *)

SlotConsistent(slot) ==
    slot # None =>
        /\ slot.model \in Models
        /\ slot.engine = WhisperEngine_new(slot.model)

\* C1: the slot holds at most one (model, engine) pair, the resident engine
\* was loaded from the model stored beside it, and that model is the one of
\* the most recent successful call; a successful call performs no load when
\* the model it asks for was resident at its entry (the second of two
\* consecutive calls with the same identity) and exactly one load otherwise.
C1_OneResidentEngine ==
    /\ current_engine \in Slots
    /\ SlotConsistent(current_engine)
    /\ SlotModel(current_engine) = last_ok
    /\ \A t \in Threads :
         tpc[t] = "goc_ok" =>
            /\ tloads[t] = (IF tseen[t] = tmodel[t] THEN 0 ELSE 1)
            /\ tloads[t] = 1 => tseen[t] # tmodel[t]

\* a call that found another identity resident has loaded once and left only
\* its own identity resident
C1_Witness ==
    \E t \in Threads :
        /\ tpc[t] = "goc_ok" /\ mutex = NoThread
        /\ tseen[t] \in Models /\ tseen[t] # tmodel[t]
        /\ tloads[t] = 1
        /\ current_engine = StoreEngine(None, tmodel[t], WhisperEngine_new(tmodel[t]))

\* C2: under every interleaving, whoever inspects the slot holds its guard
\* alone, the pair it sees agrees, no command finds the slot empty after its
\* get_or_create_engine succeeded, and a call never loads a model that is
\* resident (also when a concurrent call loaded it first).
C2_AtomicReplace ==
    /\ \A t \in Threads :
         tpc[t] \in {"goc_locked", "goc_store", "tr_locked", "tr_run"} => mutex = t
    /\ SlotConsistent(current_engine)
    /\ \A t \in Threads :
         /\ tpc[t] # "tr_none"
         /\ tpc[t] = "goc_store" => SlotModel(current_engine) # tmodel[t]
         /\ tpc[t] = "tr_run" =>
               /\ tengine[t] = WhisperEngine_new(tseen[t])
               /\ current_engine = StoreEngine(None, tseen[t], tengine[t])

\* two commands race for different models: one is in the middle of replacing
\* a resident engine while the other, which hit the cache, waits for the guard
C2_Witness ==
    \E t, u \in Threads :
        /\ t # u
        /\ tpc[t] = "goc_store" /\ current_engine # None
        /\ tpc[u] = "goc_ok" /\ tloads[u] = 0
        /\ tmodel[u] # tmodel[t]


-----------------------------------------------------------------------------
(* Claims about one request (Spec).                                        *)

\* the passes in which samples were handed to the engine to be transcribed
TranscribePasses == SelectSeq(passes, LAMBDA p : p.op = "transcribe")

Terminated == tpc[Main] \in {"done", "failed"}

\* C4: a transcription that succeeds hands the engine ceil(duration / 60 s)
\* buffers when the decoded audio is longer than 120 s, and otherwise exactly
\* one buffer, which is the whole audio: audio of exactly 120 s is not split.
\* No transcription hands over more buffers than that.
C4_BuffersPerTranscription ==
    samples # None =>
        LET expected == IF samples.len > 120 * 16000
                        THEN CeilDiv(samples.len, 60 * 16000)
                        ELSE 1
        IN  /\ Len(TranscribePasses) <= expected
            /\ result # None =>
                 /\ Len(TranscribePasses) = expected
                 /\ samples.len <= 120 * 16000 => TranscribePasses[1].buf = samples

\* audio of exactly 120 s was transcribed in one pass over the whole buffer
C4_Witness ==
    /\ result # None
    /\ samples.len = 120 * 16000
    /\ Len(TranscribePasses) = 1
    /\ TranscribePasses[1].buf = samples

\* audio a little longer than 180 s was transcribed in four passes
C4_WitnessChunked ==
    /\ result # None
    /\ samples.len = 180 * 16000 + 1
    /\ Len(TranscribePasses) = 4

\* C5: when transcribe_file has terminated, with a result or with an error,
\* every temporary file it created (extracted audio, sped-up audio) is gone.
C5_FileTempsDeleted ==
    (kind = "file" /\ Terminated) => created \cap files = {}

\* transcribe_file ended with an error and left a temporary file behind
C5_Leak ==
    /\ kind = "file" /\ tpc[Main] = "failed"
    /\ created \cap files # {}

\* C6: when transcribe_youtube has terminated after a successful download,
\* the downloaded file and the sped-up file are gone, whatever the outcome.
C6_YoutubeTempsDeleted ==
    (kind = "youtube" /\ base_audio_path # None /\ Terminated) =>
        created \cap files = {}

\* C7: a transcribe pass the engine fails is the last pass of the request:
\* the request has failed with an error that carries no text, no
\* TranscriptionResult was built, nothing was saved to the history and no
\* completed event was emitted.
C7_ChunkFailureAborts ==
    \A k \in 1..Len(passes) :
        (passes[k].op = "transcribe" /\ ~passes[k].ok) =>
            /\ k = Len(passes)
            /\ tpc[Main] = "failed"
            /\ ~outcome.ok /\ outcome.value = None
            /\ result = None
            /\ history = <<>>
            /\ \A e \in 1..Len(events) : events[e].type # "completed"

\* the engine failed on the second of three or more chunks, after the first
\* chunk had produced text
C7_Witness ==
    /\ Len(chunks) >= 3
    /\ chunk_i = 1
    /\ Len(transcriptions) = 1 /\ Len(transcriptions[1]) > 0
    /\ Len(passes) > 0
    /\ passes[Len(passes)].op = "transcribe" /\ ~passes[Len(passes)].ok
    /\ passes[Len(passes)].chunk = 1
    /\ tpc[Main] = "failed"

\* C8: once cancellation has been requested no further buffer is handed to the
\* engine.
C8_CancelStopsChunks ==
    [][cancel_requested => passes' = passes]_vars

\* C8, the outcome: a request that terminated after cancellation was requested
\* before its last chunk ended as Cancelled.
C8_CancelledOutcome ==
    (cancel_requested /\ Terminated) => outcome.stage = "cancelled"

\* the progress events of the request, in the order they were emitted
ProgressEvents == SelectSeq(events, LAMBDA e : e.type = "progress")

\* C9: the fractions of the progress events of a request are in [0, 1] and
\* never decrease, and the last one of a request that succeeded is 1.
C9_ProgressMonotone ==
    LET pe == ProgressEvents IN
    /\ \A k \in 1..Len(pe) :
         /\ FracLe(Frac(0, 1), pe[k].progress)
         /\ FracLe(pe[k].progress, Frac(1, 1))
         /\ k > 1 => FracLe(pe[k - 1].progress, pe[k].progress)
    /\ tpc[Main] = "done" =>
         /\ Len(pe) > 0
         /\ FracEq(pe[Len(pe)].progress, Frac(1, 1))

\* a video transcribed with speedup in three or more chunks has succeeded: all
\* the stages have reported progress
C9_Witness ==
    /\ tpc[Main] = "done" /\ kind = "file"
    /\ is_video_format(input_path) /\ speedup_requested(speed)
    /\ Len(chunks) >= 3
    /\ Len(ProgressEvents) = 4 + 2 * Len(chunks)

\* a tagged piece shows original time: the original start of the segment is
\* start_ms * speed, and the tag is that time in whole seconds, up to the two
\* seconds that scaling a whole-second tag by at most 2.0 can lose
InOriginalTime(piece) ==
    piece.tag # NoTag =>
        /\ TagSeconds(piece.tag) * 1000 * 100 <= piece.start_ms * speed
        /\ piece.start_ms * speed < (TagSeconds(piece.tag) + 3) * 1000 * 100

AllInOriginalTime(text) == \A k \in 1..Len(text) : InOriginalTime(text[k])

\* C10: with speedup applied and timestamps on, every tag delivered to the
\* user is in original time: in the text of the result, in the history entry
\* and in the chunk_text of the progress events.
C10_DeliveredTagsOriginal ==
    (speedup_requested(speed) /\ include_timestamps) =>
        /\ (outcome # None /\ outcome.ok) => AllInOriginalTime(outcome.value.text)
        /\ \A h \in 1..Len(history) : AllInOriginalTime(history[h].transcription)
        /\ \A e \in 1..Len(events) : AllInOriginalTime(events[e].chunk_text)

\* the returned text and the history entry of a sped-up, timestamped request
\* carry original-time tags
ResultTagsOriginal ==
    (speedup_requested(speed) /\ include_timestamps) =>
        /\ (outcome # None /\ outcome.ok) => AllInOriginalTime(outcome.value.text)
        /\ \A h \in 1..Len(history) : AllInOriginalTime(history[h].transcription)

\* a sped-up, timestamped request returned a text with a tag past one minute
ResultTagsOriginal_Witness ==
    /\ speedup_requested(speed) /\ include_timestamps
    /\ outcome # None /\ outcome.ok
    /\ \E k \in 1..Len(outcome.value.text) :
         /\ outcome.value.text[k].tag # NoTag
         /\ TagSeconds(outcome.value.text[k].tag) > 60

-----------------------------------------------------------------------------
(* Claims about the tags of the returned text.                             *)

\* C11: with speedup applied and timestamps on, the tag of every segment in
\* the returned text is the HH:MM:SS rendering of round(T * S) milliseconds,
\* where T is the start of the segment in the sped-up audio, whole second or
\* not.
C11_FinalTagIsRoundedStart ==
    (speedup_requested(speed) /\ include_timestamps /\ outcome # None /\ outcome.ok) =>
        \A k \in 1..Len(outcome.value.text) :
            LET piece == outcome.value.text[k] IN
            piece.tag # NoTag =>
                piece.tag = format_timestamp_ms(RoundMul(piece.start_ms, speed))

-----------------------------------------------------------------------------
(* Claims about the speed and cleanup helpers (SpecPure).                  *)

Abs(x) == IF x >= 0 THEN x ELSE -x

\* r is the quotient n / d (d > 0) rounded to the nearest integer, halves away
\* from zero
IsRounded(r, n, d) ==
    /\ 2 * Abs(r * d - n) <= d
    /\ 2 * Abs(r * d - n) = d => Abs(r) * d > Abs(n)

\* C12: adjust_timestamp_for_speed(T, S) is T * S rounded to the nearest
\* millisecond (a product, not a quotient): the identity for S = 1.0,
\* non-decreasing in T for S >= 1, 60000 at 1.5 gives 90000 and 120000 at 2.0
\* gives 240000.
C12_AdjustIsRoundedProduct ==
    pf_op = "adjust_timestamp_for_speed" =>
        /\ IsRounded(pf_out[1], pf_in.t1 * pf_in.s.num, pf_in.s.den)
        /\ IsRounded(pf_out[2], pf_in.t2 * pf_in.s.num, pf_in.s.den)
        /\ FracEq(pf_in.s, Frac(1, 1)) => pf_out[1] = pf_in.t1
        /\ FracLe(Frac(1, 1), pf_in.s) => pf_out[1] <= pf_out[2]
        /\ (pf_in.t1 = 60000 /\ pf_in.s = Frac(3, 2)) => pf_out[1] = 90000
        /\ (pf_in.t1 = 120000 /\ pf_in.s = Frac(2, 1)) => pf_out[1] = 240000

\* one minute at 1.5 became one minute and a half, and a later timestamp a
\* later one
C12_Witness ==
    /\ pf_op = "adjust_timestamp_for_speed"
    /\ pf_in.t1 = 60000 /\ pf_in.t2 = 120000 /\ pf_in.s = Frac(3, 2)
    /\ pf_out = <<90000, 180000>>

\* a product that falls just below a half because the factor is the f32
\* nearest to 1.3: 5 * 1.3f32 is 6.4999998, rounded to 6
C12_WitnessRoundedFactor ==
    /\ pf_op = "adjust_timestamp_for_speed"
    /\ pf_in.t1 = 5 /\ pf_in.s = Frac(10905190, 8388608)
    /\ pf_out[1] = 6

\* C13: apply_audio_speedup answers a speed factor outside [0.5, 2.0] with an
\* error without probing for the tool, running it or creating a file; the two
\* limits pass the validation.
C13_SpeedRangeValidated ==
    pf_op = "apply_audio_speedup" =>
        /\ (pf_in.speed < 50 \/ pf_in.speed > 200) =>
              /\ ~pf_out.first.ok
              /\ ~pf_out.first.probed /\ ~pf_out.first.ran
              /\ pf_out.first.wrote = {}
        /\ pf_in.speed \in {50, 200} => pf_out.first.probed

\* a factor just above the upper limit was rejected
C13_Witness ==
    /\ pf_op = "apply_audio_speedup"
    /\ pf_in.speed = 201
    /\ ~pf_out.first.ok /\ ~pf_out.first.probed

\* the upper limit itself produced a sped-up file
C13_WitnessLimit ==
    /\ pf_op = "apply_audio_speedup"
    /\ pf_in.speed = 200
    /\ pf_out.first.ok /\ pf_out.first.path = SpeedupFile

\* C14: for a speed factor within 0.01 of 1.0 apply_audio_speedup returns the
\* input path without probing for the tool, running it or writing a file, and
\* the same call on its result returns the same again.
C14_NoOpNearOne ==
    (pf_op = "apply_audio_speedup" /\ pf_in.speed \in 99..101) =>
        /\ pf_out.first.ok
        /\ pf_out.first.path = pf_in.path
        /\ ~pf_out.first.probed /\ ~pf_out.first.ran
        /\ pf_out.first.wrote = {}
        /\ pf_out.again = {pf_out.first}

\* factor 1.01 passed a user file through
C14_Witness ==
    /\ pf_op = "apply_audio_speedup"
    /\ pf_in.speed = 101 /\ pf_in.path \in UserFiles
    /\ pf_out.first.ok /\ pf_out.first.path = pf_in.path

\* C15: cleanup_speedup_file and cleanup_extracted_audio remove at most the
\* file they are called with, and only when its path contains their own tag;
\* with any other path the files are unchanged.
C15_CleanupOnlyTagged ==
    /\ pf_op = "cleanup_speedup_file" =>
         /\ pf_out \subseteq pf_in.fs
         /\ pf_in.fs \ pf_out \subseteq {pf_in.path}
         /\ SPEEDUP_TAG \notin pf_in.path.tags => pf_out = pf_in.fs
    /\ pf_op = "cleanup_extracted_audio" =>
         /\ pf_out \subseteq pf_in.fs
         /\ pf_in.fs \ pf_out \subseteq {pf_in.path}
         /\ EXTRACTED_TAG \notin pf_in.path.tags => pf_out = pf_in.fs

\* cleanup_speedup_file was called with an existing extracted-audio file and
\* left it in place
C15_Witness ==
    /\ pf_op = "cleanup_speedup_file"
    /\ pf_in.path = ExtractedFile /\ ExtractedFile \in pf_in.fs
    /\ pf_out = pf_in.fs

\* cleanup_extracted_audio removed a file carrying its tag
C15_WitnessDeleted ==
    /\ pf_op = "cleanup_extracted_audio"
    /\ pf_in.path = ExtractedFile /\ ExtractedFile \in pf_in.fs
    /\ pf_out = pf_in.fs \ {ExtractedFile}

\* C16: two invocations that each create an output file use distinct paths,
\* so the second caller's file is still there after the first caller's cleanup.
C16_DistinctOutputPaths ==
    pf_op \in {"apply_audio_speedup_twice", "extract_audio_from_video_twice"} =>
        /\ pf_out.paths[1] # pf_out.paths[2]
        /\ pf_out.paths[2] \in pf_out.left

-----------------------------------------------------------------------------
(* Claims about the engine-level driver (Spec).                            *)

\* the passes in which samples were handed to the engine to detect the language
DetectPasses == SelectSeq(passes, LAMBDA p : p.op = "detect")

\* C17: a request runs language detection at most once, and exactly once when
\* its transcription returns a result; detection is given the first
\* min(len, 480000) samples of the whole buffer (short request) or of chunk 0
\* (chunked request), never a later chunk.
C17_DetectOnceOnFirstWindow ==
    /\ Len(DetectPasses) <= 1
    /\ result # None => Len(DetectPasses) = 1
    /\ \A k \in 1..Len(DetectPasses) :
         LET first == IF samples.len > 120 * 16000 THEN 60 * 16000 ELSE samples.len
         IN  /\ DetectPasses[k].buf.start = samples.start
             /\ DetectPasses[k].buf.len = (IF first <= 480000 THEN first ELSE 480000)

\* a chunked request of three or more chunks returned a result after one
\* detection over the first 30 s
C17_Witness ==
    /\ result # None
    /\ Len(chunks) >= 3
    /\ Len(DetectPasses) = 1
    /\ DetectPasses[1].buf.len = 480000

\* a short request of more than 30 s returned a result after one detection
\* over the first 30 s
C17_WitnessShort ==
    /\ result # None
    /\ Len(chunks) = 0 /\ samples.len > 480000
    /\ Len(DetectPasses) = 1
    /\ DetectPasses[1].buf.len = 480000

\* C18: in every request, short or chunked, language detection has completed
\* before the first transcription pass starts.
C18_DetectBeforeTranscribe ==
    \A k \in 1..Len(passes) :
        passes[k].op = "transcribe" =>
            \E j \in 1..(k - 1) : passes[j].op = "detect" /\ passes[j].ok

\* C19: in a chunked request the k-th transcription pass is given chunk k - 1
\* with time offset (k - 1) * 60000 ms, the last and shorter chunk included; a
\* buffer of 180 s is transcribed as exactly 3 chunks with offsets 0 s, 60 s
\* and 120 s.
C19_ChunkOffsets ==
    Len(chunks) > 0 =>
        /\ \A k \in 1..Len(TranscribePasses) :
             /\ TranscribePasses[k].chunk = k - 1
             /\ TranscribePasses[k].buf = chunks[k]
             /\ TranscribePasses[k].offset = (k - 1) * 60000
        /\ (samples.len = 180 * 16000 /\ result # None) =>
             /\ Len(chunks) = 3
             /\ [k \in 1..3 |-> TranscribePasses[k].offset] = <<0, 60000, 120000>>

\* a buffer of 180 s was transcribed in three passes
C19_Witness ==
    /\ samples # None /\ samples.len = 180 * 16000
    /\ result # None
    /\ Len(TranscribePasses) = 3
    /\ TranscribePasses[3].offset = 120000

\* a last chunk of one sample was transcribed with the next multiple of the
\* chunk duration as its offset
C19_WitnessShortLast ==
    /\ result # None
    /\ Len(TranscribePasses) = 4
    /\ TranscribePasses[4].buf.len = 1
    /\ TranscribePasses[4].offset = 180000

\* the progress events that carry chunk text, in the order they were emitted
TextEvents == SelectSeq(events, LAMBDA e : e.has_text)

\* the position in events of the k-th event that carries chunk text
TextEventIndex(k) ==
    CHOOSE j \in 1..Len(events) :
        /\ events[j].has_text
        /\ Cardinality({i \in 1..j : events[i].has_text}) = k

\* C20: in a chunked run one progress event per transcribed chunk carries
\* chunk text, in chunk order; the k-th carries the text the engine produced
\* for chunk k - 1, is emitted after that chunk's pass and before the next
\* chunk's pass, and when the run returns, all N have been emitted and their
\* texts joined with the separator are the text it returns.
C20_ChunkTextNotifications ==
    Len(chunks) > 0 =>
        /\ Len(TextEvents) = Len(transcriptions)
        /\ \A k \in 1..Len(TextEvents) :
             /\ TextEvents[k].chunk_text = transcriptions[k]
             /\ TranscribePasses[k].chunk = k - 1 /\ TranscribePasses[k].ok
             /\ TranscribePasses[k].seen < TextEventIndex(k)
             /\ k < Len(TranscribePasses) =>
                  TextEventIndex(k) <= TranscribePasses[k + 1].seen
        /\ tpc[Main] = "save" =>
             /\ Len(TextEvents) = Len(chunks)
             /\ result.text =
                  join([k \in 1..Len(TextEvents) |-> TextEvents[k].chunk_text],
                       IF include_timestamps THEN "\n" ELSE " ")

\* a timestamped run of three or more chunks has returned a text that is not
\* empty
C20_Witness ==
    /\ tpc[Main] = "save"
    /\ Len(chunks) >= 3 /\ include_timestamps
    /\ Len(TextEvents) = Len(chunks)
    /\ \E k \in 1..Len(TextEvents) : Len(TextEvents[k].chunk_text) > 0
    /\ Len(result.text) > 0

-----------------------------------------------------------------------------
(* Claims about decoding (SpecPure).                                       *)

\* C21: decode_audio_to_whisper_format returns decoded samples only when its
\* loop ran to the end of the stream: every packet that decodes has been
\* decoded, whatever failed packets and reset signals came before it.
C21_DecodeEndsAtEndOfStream ==
    (pf_op = "decode_packets" /\ pf_out.ok) =>
        /\ pf_out.at_eof
        /\ \A k \in 1..Len(pf_in) :
             pf_in[k] = "packet" => \E j \in 1..Len(pf_out.decoded) : pf_out.decoded[j] = k

\* a failed packet and a reset signal were passed over and the packet after
\* them was decoded
C21_SkipsFailedPackets ==
    /\ pf_op = "decode_packets"
    /\ pf_in = <<"bad_packet", "reset", "packet">>
    /\ pf_out.ok /\ pf_out.at_eof /\ pf_out.decoded = <<3>>

\* C22: resample from a rate R other than 16000 returns a buffer whose length
\* is within one of floor(N * 16000 / R); from 16000 it returns the input as it
\* is.
C22_ResampleLength ==
    pf_op = "resample" =>
        IF pf_in.from_rate = 16000
        THEN pf_out.len = pf_in.len /\ pf_out.copied
        ELSE LET expected == (pf_in.len * 16000) \div pf_in.from_rate
             IN  /\ pf_out.len - expected <= 1
                 /\ expected - pf_out.len <= 1

\* one second at 44100 Hz became 16000 or 15999 samples
C22_Witness ==
    /\ pf_op = "resample"
    /\ pf_in.from_rate = 44100 /\ pf_in.len = 44100
    /\ pf_out.len \in {15999, 16000}
    /\ ~pf_out.copied

-----------------------------------------------------------------------------
(* Claims about the assembled text (Spec).                                 *)

\* the number of separators among the first i pieces of a text
SeparatorsUpTo(text, i) == Cardinality({j \in 1..i : text[j].chunk = -1})

\* C23: the chunks of a chunked request are transcribed one after the other
\* in increasing index order, and the text the run returns is the texts of
\* chunks 0, 1, .. in that order, each exactly once, with a newline between
\* two consecutive chunks when timestamps are included and a single space
\* otherwise.
C23_ChunksInOrder ==
    Len(chunks) > 0 =>
        /\ \A k \in 1..Len(TranscribePasses) :
             /\ TranscribePasses[k].chunk = k - 1
             /\ k > 1 => /\ TranscribePasses[k - 1].ok
                         /\ TranscribePasses[k - 1].seen < TranscribePasses[k].seen
        /\ tpc[Main] = "save" =>
             LET text == result.text IN
             /\ Len(transcriptions) = Len(chunks)
             /\ \A c \in 1..Len(chunks) :
                  SelectSeq(text, LAMBDA p : p.chunk = c - 1) = transcriptions[c]
             /\ SeparatorsUpTo(text, Len(text)) = Len(chunks) - 1
             /\ \A i \in 1..Len(text) :
                  IF text[i].chunk = -1
                  THEN text[i].sep = (IF include_timestamps THEN "\n" ELSE " ")
                  ELSE SeparatorsUpTo(text, i) = text[i].chunk

\* a run of three or more chunks without timestamps returned the text of its
\* first and of its last chunk around a chunk without text
C23_Witness ==
    /\ tpc[Main] = "save"
    /\ Len(chunks) >= 3 /\ ~include_timestamps
    /\ Len(transcriptions[1]) > 0
    /\ Len(transcriptions[2]) = 0
    /\ Len(transcriptions[Len(chunks)]) > 0
    /\ result.text[1].chunk = 0
    /\ result.text[Len(result.text)].chunk = Len(chunks) - 1

\* the pieces of a text that carry a tag
Tagged(text) == SelectSeq(text, LAMBDA p : p.tag # NoTag)

\* C24: with timestamps included the tag of a segment that starts at t0 (in
\* 10 ms units) in chunk i is HH:MM:SS of floor((10 * t0 + 60000 * i) / 1000)
\* seconds, and the tags of the text the run returns never decrease from one
\* segment to the next; without timestamps no segment has a tag.
C24_TagsFromSegmentStart ==
    /\ \A c \in 1..Len(transcriptions) :
         \A k \in 1..Len(transcriptions[c]) :
            LET piece == transcriptions[c][k]
                seconds == (10 * piece.t0 + 60000 * piece.chunk) \div 1000
            IN  IF include_timestamps
                THEN /\ piece.chunk = c - 1
                     /\ piece.tag.h = seconds \div 3600
                     /\ piece.tag.m = (seconds \div 60) % 60
                     /\ piece.tag.s = seconds % 60
                ELSE piece.tag = NoTag
    /\ tpc[Main] = "save" =>
         \A k \in 2..Len(Tagged(result.text)) :
            TagSeconds(Tagged(result.text)[k - 1].tag) <=
                TagSeconds(Tagged(result.text)[k].tag)

\* a timestamped run of three chunks returned a text whose last chunk has a
\* segment at 59 s, tagged two minutes and 59 seconds
C24_Witness ==
    /\ tpc[Main] = "save" /\ include_timestamps
    /\ Len(chunks) = 3
    /\ Len(Tagged(result.text)) >= 4
    /\ Tagged(result.text)[Len(Tagged(result.text))].tag = [h |-> 0, m |-> 2, s |-> 59]

-----------------------------------------------------------------------------
(* Claims about the speed option of a request (Spec).                      *)

\* the request decoded the output of the speed adjuster
SpedUp == speedup_path # None /\ decode_path = speedup_path

\* a duration of at most two decimals of a sample period, counted in
\* hundredths of a sample period
DurationUnits(x) == x.num * ((WHISPER_SAMPLE_RATE * 100) \div x.den)

\* C25: the speed of a request is clamped to [1.0, 2.0]; the speed adjuster
\* is run, the reported duration is multiplied by the speed and (with
\* timestamps) the tags are rewritten exactly when the clamped speed is above
\* 1.01.  Without a sped-up audio neither the duration nor the tags are
\* scaled, and a sped-up audio always has its duration scaled back.
C25_OneSpeedCondition ==
    kind # NoName =>
        /\ speed >= 100 /\ speed <= 200
        /\ (speedup_path # None \/ (outcome # None /\ outcome.stage = "speedup"))
              => speed > 101
        /\ (speed > 101 /\ decode_path # None) => SpedUp
        /\ audio_info # None =>
             samples.len * (IF SpedUp THEN speed ELSE 100) = DurationUnits(audio_info)
        /\ (outcome # None /\ outcome.ok) =>
             \A k \in 1..Len(outcome.value.text) :
                LET piece == outcome.value.text[k]
                    whole_s == piece.start_ms \div 1000
                IN  piece.tag # NoTag =>
                        TagSeconds(piece.tag) =
                            IF SpedUp THEN RoundMul(whole_s * 1000, speed) \div 1000
                            ELSE whole_s

\* a request at 1.5 decoded the sped-up audio and returned a tag past a minute
C25_Witness ==
    /\ speed = 150 /\ SpedUp /\ include_timestamps
    /\ outcome # None /\ outcome.ok
    /\ samples.len > 0
    /\ \E k \in 1..Len(outcome.value.text) :
         /\ outcome.value.text[k].tag # NoTag
         /\ outcome.value.text[k].start_ms >= 59000
         /\ TagSeconds(outcome.value.text[k].tag) = 88

\* a request at 1.01 decoded its input as it was and returned unscaled tags
C25_WitnessNotSpedUp ==
    /\ speed = 101 /\ ~SpedUp /\ include_timestamps
    /\ outcome # None /\ outcome.ok
    /\ samples.len > 0
    /\ \E k \in 1..Len(outcome.value.text) :
         /\ outcome.value.text[k].tag # NoTag
         /\ outcome.value.text[k].start_ms >= 59000
         /\ TagSeconds(outcome.value.text[k].tag) = 59

-----------------------------------------------------------------------------
(* Claims about failed loads and concurrent requests (SpecCache).          *)

\* C26: a get_or_create_engine call whose load fails returns the error with
\* the slot exactly as the call found it: a resident engine stays resident
\* (and is still the engine of its model), an empty slot stays empty, and the
\* guard is released.
C26_FailedLoadKeepsSlot ==
    [][\A t \in Threads :
         (tpc[t] = "goc_locked" /\ tpc'[t] = "goc_err") =>
            /\ current_engine' = current_engine
            /\ SlotModel(current_engine') = tseen[t]
            /\ SlotConsistent(current_engine')
            /\ mutex' = NoThread]_vars

\* a call for another model has failed and the engine that was resident when
\* it entered is still in the slot
C26_Witness ==
    \E t \in Threads :
        /\ tpc[t] = "goc_err" /\ mutex = NoThread
        /\ tseen[t] \in Models /\ tseen[t] # tmodel[t]
        /\ current_engine = StoreEngine(None, tseen[t], WhisperEngine_new(tseen[t]))

\* a call has failed on an empty slot, which is still empty
C26_WitnessEmpty ==
    \E t \in Threads :
        /\ tpc[t] = "goc_err" /\ mutex = NoThread
        /\ tseen[t] = NoName /\ current_engine = None

\* C27: under every interleaving, the engine a command transcribes with is
\* the engine of the model the command asked for.
C27_TranscribesWithRequestedModel ==
    \A t \in Threads :
        tpc[t] = "tr_run" => tengine[t] = WhisperEngine_new(tmodel[t])

\* C28: at most one command at a time runs engine passes, it holds the guard
\* of the slot while it does, and until its transcription returns the slot is
\* not replaced and no other command gets past the lock of
\* get_or_create_engine or of the transcription block.
C28_OneTranscriptionAtATime ==
    /\ [](/\ Cardinality({t \in Threads : tpc[t] = "tr_run"}) <= 1
          /\ \A t \in Threads : tpc[t] = "tr_run" => mutex = t)
    /\ [][\A t \in Threads :
            tpc[t] = "tr_run" =>
                /\ tpc'[t] = "tr_run" => current_engine' = current_engine
                /\ \A u \in Threads \ {t} :
                      tpc'[u] \in {tpc[u], "engine"}]_vars

\* a command is transcribing while another, which asks for a different model,
\* waits at the lock of get_or_create_engine
C28_Witness ==
    \E t \in Threads, u \in Threads :
        /\ tpc[t] = "tr_run" /\ mutex = t
        /\ tpc[u] = "engine" /\ tmodel[u] # tmodel[t]
        /\ SlotModel(current_engine) = tmodel[t]

-----------------------------------------------------------------------------
(* Claims about the input file of transcribe_file (Spec).                  *)

\* C29: transcribe_file never removes or writes a file the user supplied,
\* whatever the speed, the name of the file (names containing
\* "audioink_speedup_" or "audioink_extracted_" included) and the point of
\* failure: the paths it hands to cleanup_speedup_file and
\* cleanup_extracted_audio are files this request created, never its input.
C29_InputFileUntouched ==
    /\ [](kind = "file" =>
            /\ created \cap InputFiles = {}
            /\ speedup_path # None =>
                  speedup_path \in created /\ speedup_path # input_path
            /\ extracted_audio_path # None =>
                  extracted_audio_path \in created /\ extracted_audio_path # input_path)
    /\ [][kind' = "file" => files' \cap InputFiles = files \cap InputFiles]_vars

\* a video whose name contains both tags was transcribed at 1.5: both
\* temporary files were created and removed and the video is still there
C29_Witness ==
    /\ kind = "file" /\ speed = 150
    /\ input_path = Path("user", {SPEEDUP_TAG, EXTRACTED_TAG}, "mp4")
    /\ outcome # None /\ outcome.ok
    /\ {SpeedupFile, ExtractedFile} \subseteq created
    /\ files \cap {SpeedupFile, ExtractedFile} = {}
    /\ input_path \in files

-----------------------------------------------------------------------------
(* SpecHistory: commands that finish at overlapping times each call        *)
(* HistoryManager::save_transcription.  The manager holds two paths and no *)
(* lock; every .await of the call is a point where another call may run.   *)

\* TranscriptionEntry::new(..) of the command of thread t: the entries of two
\* commands are told apart by the command they come from (their `id` is the
\* time of creation in seconds and may coincide)
NewEntry(t) == [command |-> t]

\* entries that history.json holds before the commands finish, newest first
StoredEntries(n) == [k \in 1..n |-> [command |-> MaxThreads + k]]

\* history.json at the start: absent, one below the limit, at the limit
StoredHistories ==
    {StoredEntries(n) : n \in {0, MAX_HISTORY_ENTRIES - 1, MAX_HISTORY_ENTRIES}}

\* load_history().await.unwrap_or_default(): the stored entries, or none when
\* the file cannot be read or parsed
load_history_or_default(stored) == {stored, <<>>}

\* `self.init().await?`
save_transcription_init(t) ==
    /\ tpc[t] = "idle"
    /\ \E ok \in BOOLEAN :
         tpc' = [tpc EXCEPT ![t] = IF ok THEN "save_init" ELSE "save_err"]
    /\ UNCHANGED <<current_engine, mutex, tmodel, tseen, tloads, tengine, last_ok,
                   thistory, history, reqVars, pureVars>>

\* `let mut history = self.load_history().await.unwrap_or_default();`
save_transcription_load(t) ==
    /\ tpc[t] = "save_init"
    /\ \E h \in load_history_or_default(history) :
         thistory' = [thistory EXCEPT ![t] = h]
    /\ tpc' = [tpc EXCEPT ![t] = "save_loaded"]
    /\ UNCHANGED <<current_engine, mutex, tmodel, tseen, tloads, tengine, last_ok,
                   history, reqVars, pureVars>>

\* insert, truncate, serialise and `fs::write(&self.history_file, json).await?`
save_transcription_write(t) ==
    /\ tpc[t] = "save_loaded"
    /\ \E ok \in BOOLEAN :
         IF ok
         THEN /\ history' = save_transcription(thistory[t], NewEntry(t))
              /\ tpc' = [tpc EXCEPT ![t] = "save_written"]
         ELSE /\ tpc' = [tpc EXCEPT ![t] = "save_err"]
              /\ UNCHANGED history
    /\ UNCHANGED <<current_engine, mutex, tmodel, tseen, tloads, tengine, last_ok,
                   thistory, reqVars, pureVars>>

\* `self.save_as_txt(&entry).await?; Ok(())`
save_transcription_txt(t) ==
    /\ tpc[t] = "save_written"
    /\ \E ok \in BOOLEAN :
         tpc' = [tpc EXCEPT ![t] = IF ok THEN "save_ok" ELSE "save_err"]
    /\ UNCHANGED <<current_engine, mutex, tmodel, tseen, tloads, tengine, last_ok,
                   thistory, history, reqVars, pureVars>>

InitHistory ==
    /\ CacheInit /\ current_engine = None
    /\ history \in StoredHistories
    /\ ReqIdle /\ files = {} /\ PureIdle

NextHistory ==
    \E t \in Threads :
        \/ save_transcription_init(t)
        \/ save_transcription_load(t)
        \/ save_transcription_write(t)
        \/ save_transcription_txt(t)

SpecHistory == InitHistory /\ [][NextHistory]_vars

\* C30: once the save_transcription calls of the commands have all returned
\* Ok, the stored history holds the entry of each of them; the history never
\* holds more than 50 entries, and after a write a new entry is the first.
C30_BothEntriesKept ==
    /\ (\A t \in Threads : tpc[t] = "save_ok") =>
          \A t \in Threads : \E k \in 1..Len(history) : history[k] = NewEntry(t)
    /\ Len(history) <= MAX_HISTORY_ENTRIES
    /\ (\E t \in Threads : tpc[t] \in {"save_written", "save_ok"}) =>
          (Len(history) > 0 /\ history[1].command \in Threads)

\* the history never holds more than 50 entries and starts with a new entry
\* once one was written
C30_BoundedNewestFirst ==
    /\ Len(history) <= MAX_HISTORY_ENTRIES
    /\ (\E t \in Threads : tpc[t] \in {"save_written", "save_ok"}) =>
          (Len(history) > 0 /\ history[1].command \in Threads)

\* every call read the stored history in full and returned Ok, and the entry
\* of one of them is not in the stored history
C30_LostUpdate ==
    /\ \A t \in Threads : tpc[t] = "save_ok"
    /\ \A t \in Threads : Len(thistory[t]) >= MAX_HISTORY_ENTRIES - 1
    /\ \E t \in Threads : \A k \in 1..Len(history) : history[k] # NewEntry(t)

=============================================================================
